---------------------------- MODULE Spec2Model ----------------------------
(***************************************************************************)
(* Model of the focalboard client library:                                 *)
(*   - the boards-and-blocks batch validators (boards_and_blocks.go)       *)
(*   - the request/response/error layer of the client (client.go)          *)
(***************************************************************************)
EXTENDS Integers, Sequences, FiniteSets, TLC

(***************************************************************************)
(* Bounds of the model.                                                    *)
(***************************************************************************)
MaxBoards == 2
MaxBlocks == 2
MaxPatchLen == 2
MaxOther == 1
MaxWrap == 2

(***************************************************************************)
(* Input alphabets.  IDs are opaque strings.                               *)
(***************************************************************************)
BoardIDSet == {"b1", "b2"}
BlockIDSet == {"c1", "c2"}
\* a block may reference a board of the batch or an ID no board carries
BlockBoardIDSet == BoardIDSet \cup {"zzz"}
BoardPatchSet == {"bp"}
BlockPatchSet == {"kp"}

SeqsUpTo(S, n) == UNION {[1..k -> S] : k \in 0..n}

\* Block: only the fields the validator reads (ID, BoardID)
BlockSet == [ID : BlockIDSet, BoardID : BlockBoardIDSet]

\* BoardsAndBlocks: Boards is the sequence of the boards' IDs
BoardsAndBlocksSet ==
    [Boards : SeqsUpTo(BoardIDSet, MaxBoards), Blocks : SeqsUpTo(BlockSet, MaxBlocks)]

\* the create batches validated in between the caller's own validations
OtherBlockSet == [ID : {"c1"}, BoardID : {"zzz"}]
OtherBoardsAndBlocksSet ==
    [Boards : SeqsUpTo(BoardIDSet, MaxOther), Blocks : SeqsUpTo(OtherBlockSet, MaxOther)]

PatchBoardsAndBlocksSet ==
    [BoardIDs : SeqsUpTo(BoardIDSet, MaxPatchLen),
     BoardPatches : SeqsUpTo(BoardPatchSet, MaxPatchLen),
     BlockIDs : SeqsUpTo(BlockIDSet, MaxPatchLen),
     BlockPatches : SeqsUpTo(BlockPatchSet, MaxPatchLen)]

\* the zero values of the two payload types (nil slices)
ZeroBoardsAndBlocks == [Boards |-> <<>>, Blocks |-> <<>>]
ZeroPatchBoardsAndBlocks ==
    [BoardIDs |-> <<>>, BoardPatches |-> <<>>, BlockIDs |-> <<>>, BlockPatches |-> <<>>]

VARIABLES
    kind,       \* which payload the caller holds: "create" or "patch"
    bab,        \* the caller's *BoardsAndBlocks payload
    pbab,       \* the caller's *PatchBoardsAndBlocks payload
    babErr,     \* what the last bab.IsValid() returned (NotCalled before)
    pbabErr,    \* what the last pbab.IsValid() returned (NotCalled before)
    boardsMap,  \* the local boardsMap as the last BoardsAndBlocks.IsValid left it
    phase       \* history of the caller's payload:
                \* fresh, validated, interleaved, revalidated

vvars == <<kind, bab, pbab, babErr, pbabErr, boardsMap, phase>>

VARIABLES
    Token,      \* c.Token
    HTTPHeader, \* c.HTTPHeader
    pc,         \* per caller: idle, sent, received, returned, done
    op,         \* per caller: the client operation in progress
    args,       \* per caller: the arguments of the operation
    rq,         \* per caller: the header of the request built
    sends,      \* per caller: how often the call handed a request to Do
    resp,       \* per caller: the *http.Response HTTPClient.Do returned
    doErr,      \* per caller: the error HTTPClient.Do returned
    body,       \* per caller: the state of the response's Body stream
    ret,        \* per caller: what doAPIRequestReader returned
    out         \* per caller: what the client operation returned

tvars == <<Token, HTTPHeader, pc, op, args, rq, sends, resp, doErr, body, ret, out>>

VARIABLES
    btIn,       \* the string given to BlockTypeFromString
    btOut,      \* the BlockType it returned
    btErr,      \* the error value at hand, as its chain of wrapped errors
    btIs        \* what IsErrInvalidBlockType said of btErr

bvars == <<btIn, btOut, btErr, btIs>>

vars == <<vvars, tvars, bvars>>

(***************************************************************************)
(* Error values of boards_and_blocks.go.  The package-level errors are     *)
(* distinct values (errors.New); the orphan error carries the block ID.    *)
(***************************************************************************)
NilErr == [kind |-> "nil", blockID |-> ""]
NotCalled == [kind |-> "not called", blockID |-> ""]
ErrNoBoardsInBoardsAndBlocks == [kind |-> "ErrNoBoardsInBoardsAndBlocks", blockID |-> ""]
ErrNoBlocksInBoardsAndBlocks == [kind |-> "ErrNoBlocksInBoardsAndBlocks", blockID |-> ""]
ErrBoardIDsAndPatchesMissmatchInBoardsAndBlocks ==
    [kind |-> "ErrBoardIDsAndPatchesMissmatchInBoardsAndBlocks", blockID |-> ""]
ErrBlockIDsAndPatchesMissmatchInBoardsAndBlocks ==
    [kind |-> "ErrBlockIDsAndPatchesMissmatchInBoardsAndBlocks", blockID |-> ""]
BlockDoesntBelongToAnyBoardErr(id) ==
    [kind |-> "BlockDoesntBelongToAnyBoardErr", blockID |-> id]

(***************************************************************************)
(* BoardsAndBlocks.IsValid                                                 *)
(***************************************************************************)
\* mutant: the map outlives the call (a package-level map instead of a local)
NewBoardsMap_Stale == boardsMap

\* boardsMap := map[string]bool{} : a fresh map, modelled by its key set
NewBoardsMap == {}

\* mutant: every board replaces the map instead of being added to it
RECURSIVE FillBoardsMap_Overwrite(_, _, _)
FillBoardsMap_Overwrite(boards, i, m) ==
    IF i > Len(boards) THEN m
    ELSE FillBoardsMap_Overwrite(boards, i + 1, {boards[i]})

\* for _, board := range bab.Boards { boardsMap[board.ID] = true }
RECURSIVE FillBoardsMap(_, _, _)
FillBoardsMap(boards, i, m) ==
    IF i > Len(boards) THEN m
    ELSE FillBoardsMap(boards, i + 1, m \cup {boards[i]})

\* mutant: the loop does not return at the first orphan and reports the last
RECURSIVE CheckBlocks_LastOrphan(_, _, _)
CheckBlocks_LastOrphan(blocks, i, m) ==
    IF i > Len(blocks) THEN NilErr
    ELSE LET rest == CheckBlocks_LastOrphan(blocks, i + 1, m) IN
         IF rest # NilErr THEN rest
         ELSE IF blocks[i].BoardID \notin m
              THEN BlockDoesntBelongToAnyBoardErr(blocks[i].ID)
              ELSE NilErr

\* for _, block := range bab.Blocks { if _, ok := boardsMap[block.BoardID]; !ok { return ... } }
RECURSIVE CheckBlocks(_, _, _)
CheckBlocks(blocks, i, m) ==
    IF i > Len(blocks) THEN NilErr
    ELSE IF blocks[i].BoardID \notin m
         THEN BlockDoesntBelongToAnyBoardErr(blocks[i].ID)
         ELSE CheckBlocks(blocks, i + 1, m)

\* mutant: the blocks-empty check comes before the boards-empty check
BoardsAndBlocks_IsValid_BlocksFirst(b, prev) ==
    IF Len(b.Blocks) = 0
    THEN [err |-> ErrNoBlocksInBoardsAndBlocks, boardsMap |-> prev]
    ELSE IF Len(b.Boards) = 0
    THEN [err |-> ErrNoBoardsInBoardsAndBlocks, boardsMap |-> prev]
    ELSE LET m == FillBoardsMap(b.Boards, 1, NewBoardsMap)
         IN  [err |-> CheckBlocks(b.Blocks, 1, m), boardsMap |-> m]

\* mutant: the blocks-empty check is missing
BoardsAndBlocks_IsValid_NoBlocksCheck(b, prev) ==
    IF Len(b.Boards) = 0
    THEN [err |-> ErrNoBoardsInBoardsAndBlocks, boardsMap |-> prev]
    ELSE LET m == FillBoardsMap(b.Boards, 1, NewBoardsMap)
         IN  [err |-> CheckBlocks(b.Blocks, 1, m), boardsMap |-> m]

\* the call: the error returned and the local map as the call leaves it
\* (prev is the local's previous content, kept when the call returns before
\* the map is made)
BoardsAndBlocks_IsValid(b, prev) ==
    IF Len(b.Boards) = 0
    THEN [err |-> ErrNoBoardsInBoardsAndBlocks, boardsMap |-> prev]
    ELSE IF Len(b.Blocks) = 0
    THEN [err |-> ErrNoBlocksInBoardsAndBlocks, boardsMap |-> prev]
    ELSE LET m == FillBoardsMap(b.Boards, 1, NewBoardsMap)
         IN  [err |-> CheckBlocks(b.Blocks, 1, m), boardsMap |-> m]

(***************************************************************************)
(* PatchBoardsAndBlocks.IsValid                                            *)
(***************************************************************************)
\* mutant: the board length check comes before the emptiness check
PatchBoardsAndBlocks_IsValid_MismatchFirst(d) ==
    IF Len(d.BoardIDs) # Len(d.BoardPatches)
    THEN ErrBoardIDsAndPatchesMissmatchInBoardsAndBlocks
    ELSE IF Len(d.BoardIDs) = 0 THEN ErrNoBoardsInBoardsAndBlocks
    ELSE IF Len(d.BlockIDs) # Len(d.BlockPatches)
    THEN ErrBlockIDsAndPatchesMissmatchInBoardsAndBlocks
    ELSE NilErr

\* mutant: the block ID list is compared with the board patch list
PatchBoardsAndBlocks_IsValid_WrongPair(d) ==
    IF Len(d.BoardIDs) = 0 THEN ErrNoBoardsInBoardsAndBlocks
    ELSE IF Len(d.BoardIDs) # Len(d.BoardPatches)
    THEN ErrBoardIDsAndPatchesMissmatchInBoardsAndBlocks
    ELSE IF Len(d.BlockIDs) # Len(d.BoardPatches)
    THEN ErrBlockIDsAndPatchesMissmatchInBoardsAndBlocks
    ELSE NilErr

\* mutant: a patch batch needs a block, as a create batch does
PatchBoardsAndBlocks_IsValid_NeedsBlocks(d) ==
    IF Len(d.BoardIDs) = 0 THEN ErrNoBoardsInBoardsAndBlocks
    ELSE IF Len(d.BlockIDs) = 0 THEN ErrNoBlocksInBoardsAndBlocks
    ELSE IF Len(d.BoardIDs) # Len(d.BoardPatches)
    THEN ErrBoardIDsAndPatchesMissmatchInBoardsAndBlocks
    ELSE IF Len(d.BlockIDs) # Len(d.BlockPatches)
    THEN ErrBlockIDsAndPatchesMissmatchInBoardsAndBlocks
    ELSE NilErr

PatchBoardsAndBlocks_IsValid(d) ==
    IF Len(d.BoardIDs) = 0 THEN ErrNoBoardsInBoardsAndBlocks
    ELSE IF Len(d.BoardIDs) # Len(d.BoardPatches)
    THEN ErrBoardIDsAndPatchesMissmatchInBoardsAndBlocks
    ELSE IF Len(d.BlockIDs) # Len(d.BlockPatches)
    THEN ErrBlockIDsAndPatchesMissmatchInBoardsAndBlocks
    ELSE NilErr

(***************************************************************************)
(* The client: request, response and error values (client.go)              *)
(***************************************************************************)
Procs == {"p1", "p2"}

\* http.StatusNotModified, http.StatusMultipleChoices
StatusNotModified == 304
StatusMultipleChoices == 300

\* what a server answers; 302 is what Do hands back when it gives up redirecting
StatusSet == {200, 299, 300, 304, 500}
StatusFound == 302

\* header maps are sets of <<name, value>> with one value per name
EmptyHeader == {}
RespHeaderSet == {EmptyHeader, {<<"Etag", "v1">>}}

HeaderKeys(h) == {x[1] : x \in h}

\* Header.Set(k, v)
HeaderSet(h, k, v) == {x \in h : x[1] # k} \cup {<<k, v>>}

\* for k, v := range m { h.Set(k, v) }
HeaderSetAll(h, m) == {x \in h : x[1] \notin HeaderKeys(m)} \cup m

\* the bodies a server sends, as byte sequences
BodySet == {<<>>, <<"{", "}">>, <<"{", "t", "}">>, <<"[", "]">>, <<"b", "o", "o", "m">>}

\* a Body stream: the bytes the server sent, how many of them arrive before the
\* connection breaks (all of them when it does not), how many were read, closed,
\* and whether it was read after it was closed
BodyStream(sent, avail) ==
    [sent |-> sent, avail |-> avail, pos |-> 0, closed |-> FALSE, readClosed |-> FALSE]
NoBody == BodyStream(<<>>, 0)

NilResponse == [present |-> FALSE, StatusCode |-> 0, Header |-> EmptyHeader]
HTTPResponse(code, header) == [present |-> TRUE, StatusCode |-> code, Header |-> header]

\* error values: kind, the payload of a RequestReaderError, the status code
\* formatted into a wrapped read error
NilError == [kind |-> "nil", buf |-> <<>>, code |-> 0]
NewRequestError == [kind |-> "NewRequestError", buf |-> <<>>, code |-> 0]
ConnError == [kind |-> "ConnError", buf |-> <<>>, code |-> 0]
RedirectError == [kind |-> "RedirectError", buf |-> <<>>, code |-> 0]
RequestReaderError(b) == [kind |-> "RequestReaderError", buf |-> b, code |-> 0]
\* fmt.Errorf("error when parsing response with code %d: %w", rp.StatusCode, err)
ParsingResponseError(code) == [kind |-> "ParsingResponseError", buf |-> <<>>, code |-> code]
\* what json.Decoder.Decode returns
DecodeError(k) == [kind |-> k, buf |-> <<>>, code |-> 0]

\* io.ReadAll(r.Body): the bytes up to the end of the stream or to the read error
ReadAll(b) ==
    IF b.closed
    THEN [data |-> <<>>, failed |-> TRUE, body |-> [b EXCEPT !.readClosed = TRUE]]
    ELSE [data |-> SubSeq(b.sent, b.pos + 1, b.avail),
          failed |-> b.avail < Len(b.sent),
          body |-> [b EXCEPT !.pos = b.avail]]

\* what the transport's own Close leaves: nothing more is read
TransportClosed(b) == [b EXCEPT !.closed = TRUE]

\* mutant: the body is closed without being drained
closeBody_NoDrain(b) ==
    IF b.closed THEN [b EXCEPT !.readClosed = TRUE] ELSE [b EXCEPT !.closed = TRUE]

\* io.Copy(io.Discard, r.Body); r.Body.Close()
closeBody(b) ==
    IF b.closed
    THEN [b EXCEPT !.readClosed = TRUE]
    ELSE [b EXCEPT !.pos = b.avail, !.closed = TRUE]

\* mutant: the error is not stored in the Response
BuildErrorResponse_NoError(r, err) ==
    [StatusCode |-> IF r.present THEN r.StatusCode ELSE 0,
     Error |-> NilError,
     Header |-> IF r.present THEN r.Header ELSE EmptyHeader]

BuildErrorResponse(r, err) ==
    [StatusCode |-> IF r.present THEN r.StatusCode ELSE 0,
     Error |-> err,
     Header |-> IF r.present THEN r.Header ELSE EmptyHeader]

BuildResponse(r) ==
    [StatusCode |-> r.StatusCode, Error |-> NilError, Header |-> r.Header]

NoResponse == [StatusCode |-> 0, Error |-> NilError, Header |-> EmptyHeader]

(***************************************************************************)
(* NewClient and Client.doAPIRequestReader                                 *)
(***************************************************************************)
TokenSet == {"", "tok"}

\* headers := map[string]string{"X-Requested-With": "XMLHttpRequest"}
NewClientHeaders == {<<"X-Requested-With", "XMLHttpRequest">>}

\* the headers the requestOption values of a call set on the request
OptSet ==
    {EmptyHeader,
     {<<"Content-Type", "multipart/form-data">>},
     {<<"Authorization", "caller">>},
     {<<"X-Requested-With", "caller">>}}

\* mutant: the options are applied after the client's headers
RequestHeader_OptsLast(opts, httpHeader, token) ==
    LET h0 == EmptyHeader
        h1 == IF httpHeader # {} THEN HeaderSetAll(h0, httpHeader) ELSE h0
        h2 == IF token # "" THEN HeaderSet(h1, "Authorization", "Bearer " \o token) ELSE h1
    IN  HeaderSetAll(h2, opts)

\* lines 109-126: the header of the request: the options, then the client's
\* headers, then the Authorization header
RequestHeader(opts, httpHeader, token) ==
    LET h0 == HeaderSetAll(EmptyHeader, opts)
        h1 == IF httpHeader # {} THEN HeaderSetAll(h0, httpHeader) ELSE h0
    IN  IF token # "" THEN HeaderSet(h1, "Authorization", "Bearer " \o token) ELSE h1

\* what c.HTTPClient.Do(rq) returns: an error without a response, the last
\* response (body closed) with an error when redirecting is given up, or a
\* response.  A 304 response has no body.
DoOutcomeSet ==
    {[rp |-> NilResponse, err |-> ConnError, body |-> NoBody]}
    \cup {[rp |-> HTTPResponse(StatusFound, h), err |-> RedirectError, body |-> TransportClosed(NoBody)]
            : h \in RespHeaderSet}
    \cup UNION {UNION {{[rp |-> HTTPResponse(c, h), err |-> NilError, body |-> BodyStream(d, a)]
                          : a \in 0..Len(d)}
                      : d \in IF c = StatusNotModified THEN {<<>>} ELSE BodySet}
                  : c \in StatusSet, h \in RespHeaderSet}

\* mutant: a status of exactly 300 passes as a success
DoAPIRequestReaderReturn_Above300(rp, err, b) ==
    IF err # NilError \/ ~rp.present
    THEN [rp |-> NilResponse, err |-> err, body |-> b]
    ELSE IF rp.StatusCode = StatusNotModified
    THEN [rp |-> rp, err |-> NilError, body |-> b]
    ELSE IF rp.StatusCode > StatusMultipleChoices
    THEN LET r == ReadAll(b) IN
         IF r.failed
         THEN [rp |-> rp, err |-> ParsingResponseError(rp.StatusCode), body |-> closeBody(r.body)]
         ELSE [rp |-> rp, err |-> RequestReaderError(r.data), body |-> closeBody(r.body)]
    ELSE [rp |-> rp, err |-> NilError, body |-> b]

\* mutant: the 304 check is missing, a 304 falls under status >= 300
DoAPIRequestReaderReturn_No304(rp, err, b) ==
    IF err # NilError \/ ~rp.present
    THEN [rp |-> NilResponse, err |-> err, body |-> b]
    ELSE IF rp.StatusCode >= StatusMultipleChoices
    THEN LET r == ReadAll(b) IN
         IF r.failed
         THEN [rp |-> rp, err |-> ParsingResponseError(rp.StatusCode), body |-> closeBody(r.body)]
         ELSE [rp |-> rp, err |-> RequestReaderError(r.data), body |-> closeBody(r.body)]
    ELSE [rp |-> rp, err |-> NilError, body |-> b]

\* lines 128-146: from what Do returned to what doAPIRequestReader returns
DoAPIRequestReaderReturn(rp, err, b) ==
    IF err # NilError \/ ~rp.present
    THEN [rp |-> NilResponse, err |-> err, body |-> b]
    ELSE IF rp.StatusCode = StatusNotModified
    THEN [rp |-> rp, err |-> NilError, body |-> b]
    ELSE IF rp.StatusCode >= StatusMultipleChoices
    THEN LET r == ReadAll(b) IN
         IF r.failed
         THEN [rp |-> rp, err |-> ParsingResponseError(rp.StatusCode), body |-> closeBody(r.body)]
         ELSE [rp |-> rp, err |-> RequestReaderError(r.data), body |-> closeBody(r.body)]
    ELSE [rp |-> rp, err |-> NilError, body |-> b]

(***************************************************************************)
(* The client operations                                                   *)
(***************************************************************************)
\* operations of each shape: a boolean result, a decoded result whose decode
\* error is returned, decoded results whose decode error is dropped, Login
OpSet ==
    {"PatchBlock", "GetCard", "CreateBoardsAndBlocks", "PatchBoardsAndBlocks",
     "DuplicateBoard", "Login"}

\* the operations that decode the body with BoardsAndBlocksFromJSON
BoardsAndBlocksOps == {"CreateBoardsAndBlocks", "PatchBoardsAndBlocks", "DuplicateBoard"}

ZeroResult(o) == IF o = "PatchBlock" THEN "false" ELSE "nil"

\* the JSON document at the head of the bytes
Parse(data) ==
    IF Len(data) >= 2 /\ SubSeq(data, 1, 2) = <<"{", "}">> THEN "object"
    ELSE IF data = <<"{", "t", "}">> THEN "object"
    ELSE IF Len(data) >= 2 /\ SubSeq(data, 1, 2) = <<"[", "]">> THEN "array"
    ELSE "invalid"

\* json.NewDecoder(r.Body).Decode(&v) for a v that takes a JSON object: a
\* document of another type leaves v allocated and zero, with a type error;
\* without a document the error is the read error, io.EOF or a syntax error
Decode(b) ==
    LET r == ReadAll(b)
        doc == Parse(r.data)
    IN  IF doc = "object"
        THEN [value |-> "object", err |-> NilError, body |-> r.body]
        ELSE IF doc = "array"
        THEN [value |-> "zero", err |-> DecodeError("UnmarshalTypeError"), body |-> r.body]
        ELSE [value |-> "nil",
              err |-> IF r.failed THEN DecodeError("ReadError")
                      ELSE IF r.data = <<>> THEN DecodeError("EOF")
                      ELSE DecodeError("SyntaxError"),
              body |-> r.body]

\* the "token" member of the JSON object in the bytes
TokenOf(data) == IF data = <<"{", "t", "}">> THEN "t" ELSE ""

\* LoginResponseFromJSON(r.Body): the decoded LoginResponse and its Token, or
\* the decode error
LoginResponseFromJSON(b) ==
    LET d == Decode(b) IN
    [value |-> d.value,
     token |-> IF d.err = NilError THEN TokenOf(ReadAll(b).data) ELSE "",
     err |-> d.err, body |-> d.body]

\* _ = json.NewDecoder(data).Decode(&bab); return bab
BoardsAndBlocksFromJSON(b) ==
    LET d == Decode(b) IN [value |-> d.value, body |-> d.body]

\* mutant: Login stores whatever token the response carries
LoginToken_Always(old, tok) == tok

\* if data.Token != "" { c.Token = data.Token }
LoginToken(old, tok) == IF tok # "" THEN tok ELSE old

\* the operation from the return of the request call to its own return: its
\* result, its Response, the body it leaves and the client's token
OpReturn(o, r, b, tok) ==
    IF r.err # NilError
    THEN [result |-> ZeroResult(o), Response |-> BuildErrorResponse(r.rp, r.err),
          body |-> b, token |-> tok]
    ELSE IF o = "PatchBlock"
    THEN [result |-> "true", Response |-> BuildResponse(r.rp),
          body |-> closeBody(b), token |-> tok]
    ELSE IF o = "GetCard"
    THEN LET d == Decode(b) IN
         IF d.err # NilError
         THEN [result |-> "nil", Response |-> BuildErrorResponse(r.rp, d.err),
               body |-> closeBody(d.body), token |-> tok]
         ELSE [result |-> d.value, Response |-> BuildResponse(r.rp),
               body |-> closeBody(d.body), token |-> tok]
    ELSE IF o = "Login"
    THEN LET d == LoginResponseFromJSON(b) IN
         IF d.err # NilError
         THEN [result |-> "nil", Response |-> BuildErrorResponse(r.rp, d.err),
               body |-> closeBody(d.body), token |-> tok]
         ELSE [result |-> d.value, Response |-> BuildResponse(r.rp),
               body |-> closeBody(d.body), token |-> LoginToken(tok, d.token)]
    ELSE LET d == BoardsAndBlocksFromJSON(b) IN
         [result |-> d.value, Response |-> BuildResponse(r.rp),
          body |-> closeBody(d.body), token |-> tok]

(***************************************************************************)
(* Transport specification: callers run client operations on one Client.   *)
(***************************************************************************)
\* the batches submitted through CreateBoardsAndBlocks
SubmittedBabSet ==
    {ZeroBoardsAndBlocks,
     [Boards |-> <<"b1">>, Blocks |-> <<>>],
     [Boards |-> <<"b1">>, Blocks |-> <<[ID |-> "c1", BoardID |-> "zzz"]>>],
     [Boards |-> <<"b1">>, Blocks |-> <<[ID |-> "c1", BoardID |-> "b1"]>>]}

\* the batches submitted through PatchBoardsAndBlocks
SubmittedPbabSet ==
    {ZeroPatchBoardsAndBlocks,
     [BoardIDs |-> <<"b1">>, BoardPatches |-> <<>>, BlockIDs |-> <<>>, BlockPatches |-> <<>>],
     [BoardIDs |-> <<"b1">>, BoardPatches |-> <<"bp">>, BlockIDs |-> <<"c1">>, BlockPatches |-> <<>>],
     [BoardIDs |-> <<"b1">>, BoardPatches |-> <<"bp">>, BlockIDs |-> <<>>, BlockPatches |-> <<>>]}

\* the arguments of operation o: the request options, among optSet, and the
\* batch
ArgSet(o, optSet) ==
    [opts : optSet,
     bab : IF o = "CreateBoardsAndBlocks" THEN SubmittedBabSet ELSE {ZeroBoardsAndBlocks},
     pbab : IF o = "PatchBoardsAndBlocks" THEN SubmittedPbabSet ELSE {ZeroPatchBoardsAndBlocks}]

NoArgs == [opts |-> EmptyHeader, bab |-> ZeroBoardsAndBlocks, pbab |-> ZeroPatchBoardsAndBlocks]

NoRet == [rp |-> NilResponse, err |-> NilError]
NoOut == [result |-> "", Response |-> NoResponse]

CallersIdle ==
    /\ pc = [p \in Procs |-> "idle"]
    /\ op = [p \in Procs |-> ""]
    /\ args = [p \in Procs |-> NoArgs]
    /\ rq = [p \in Procs |-> EmptyHeader]
    /\ sends = [p \in Procs |-> 0]
    /\ resp = [p \in Procs |-> NilResponse]
    /\ doErr = [p \in Procs |-> NilError]
    /\ body = [p \in Procs |-> NoBody]
    /\ ret = [p \in Procs |-> NoRet]
    /\ out = [p \in Procs |-> NoOut]

\* NewClient(url, sessionToken)
InitT ==
    /\ Token \in TokenSet
    /\ HTTPHeader = NewClientHeaders
    /\ CallersIdle

\* the validator's variables while only the client runs
ValidatorIdle ==
    /\ kind = "create"
    /\ bab = ZeroBoardsAndBlocks
    /\ pbab = ZeroPatchBoardsAndBlocks
    /\ babErr = NotCalled
    /\ pbabErr = NotCalled
    /\ boardsMap = {}
    /\ phase = "fresh"

\* the block type variables while the client or the validators run
BlockTypeIdle ==
    /\ btIn = ""
    /\ btOut = ""
    /\ btErr = <<>>
    /\ btIs = "not called"

\* the client's variables while only the validators run
ClientIdle ==
    /\ Token = ""
    /\ HTTPHeader = NewClientHeaders
    /\ CallersIdle

\* caller p is a Login between the return of its request and its own return,
\* about to store another token: its write of c.Token is not ordered with the
\* reads of the other callers
WritesToken(p) ==
    /\ pc[p] = "returned" /\ op[p] = "Login"
    /\ OpReturn(op[p], ret[p], body[p], Token).token # Token

\* what caller p may read from c.Token at lines 124-125: the stored token, or
\* while another caller writes it, the token written or a torn string
TokenRead(p) ==
    {Token} \cup
    UNION {{OpReturn(op[q], ret[q], body[q], Token).token, "torn"} :
               q \in {x \in Procs \ {p} : WritesToken(x)}}

\* a caller starts one of the operations ops with options among optSet;
\* doAPIRequestReader builds the request (http.NewRequest fails on a URL it
\* cannot parse, urlOKs) and hands it to Do
CallWith(p, ops, optSet, urlOKs) ==
    /\ pc[p] = "idle"
    /\ \E o \in ops, urlOK \in urlOKs :
        \E a \in ArgSet(o, optSet), t \in TokenRead(p) :
            /\ op' = [op EXCEPT ![p] = o]
            /\ args' = [args EXCEPT ![p] = a]
            /\ IF urlOK
               THEN /\ rq' = [rq EXCEPT ![p] = RequestHeader(a.opts, HTTPHeader, t)]
                    /\ pc' = [pc EXCEPT ![p] = "sent"]
                    /\ UNCHANGED ret
               ELSE /\ ret' = [ret EXCEPT ![p] = [rp |-> NilResponse, err |-> NewRequestError]]
                    /\ pc' = [pc EXCEPT ![p] = "returned"]
                    /\ UNCHANGED rq
    /\ UNCHANGED <<Token, HTTPHeader, sends, resp, doErr, body, out, vvars, bvars>>

Call(p) == CallWith(p, OpSet, OptSet, BOOLEAN)

\* rp, err := c.HTTPClient.Do(rq), with one of the outcomes
HTTPDoWith(p, outcomes) ==
    /\ pc[p] = "sent"
    /\ \E o \in outcomes :
        /\ resp' = [resp EXCEPT ![p] = o.rp]
        /\ doErr' = [doErr EXCEPT ![p] = o.err]
        /\ body' = [body EXCEPT ![p] = o.body]
    /\ sends' = [sends EXCEPT ![p] = sends[p] + 1]
    /\ pc' = [pc EXCEPT ![p] = "received"]
    /\ UNCHANGED <<Token, HTTPHeader, op, args, rq, ret, out, vvars, bvars>>

HTTPDo(p) == HTTPDoWith(p, DoOutcomeSet)

\* mutant: after a failure the request is handed to Do once more
RequestReturn_Retry(p) ==
    /\ pc[p] = "received"
    /\ LET r == DoAPIRequestReaderReturn(resp[p], doErr[p], body[p]) IN
        /\ ret' = [ret EXCEPT ![p] = [rp |-> r.rp, err |-> r.err]]
        /\ body' = [body EXCEPT ![p] = r.body]
        /\ pc' = [pc EXCEPT ![p] = IF r.err # NilError /\ sends[p] < 2
                                   THEN "sent" ELSE "returned"]
    /\ UNCHANGED <<Token, HTTPHeader, op, args, rq, sends, resp, doErr, out, vvars, bvars>>

\* doAPIRequestReader classifies the outcome and returns
RequestReturn(p) ==
    /\ pc[p] = "received"
    /\ LET r == DoAPIRequestReaderReturn(resp[p], doErr[p], body[p]) IN
        /\ ret' = [ret EXCEPT ![p] = [rp |-> r.rp, err |-> r.err]]
        /\ body' = [body EXCEPT ![p] = r.body]
    /\ pc' = [pc EXCEPT ![p] = "returned"]
    /\ UNCHANGED <<Token, HTTPHeader, op, args, rq, sends, resp, doErr, out, vvars, bvars>>

\* the operation builds its result and its Response and returns
OperationReturn(p) ==
    /\ pc[p] = "returned"
    /\ LET r == OpReturn(op[p], ret[p], body[p], Token) IN
        /\ out' = [out EXCEPT ![p] = [result |-> r.result, Response |-> r.Response]]
        /\ body' = [body EXCEPT ![p] = r.body]
        /\ Token' = r.token
    /\ pc' = [pc EXCEPT ![p] = "done"]
    /\ UNCHANGED <<HTTPHeader, op, args, rq, sends, resp, doErr, ret, vvars, bvars>>

\* the caller drops what the call left and is free for the next call
Forget(p) ==
    /\ pc[p] = "done"
    /\ pc' = [pc EXCEPT ![p] = "idle"]
    /\ op' = [op EXCEPT ![p] = ""]
    /\ args' = [args EXCEPT ![p] = NoArgs]
    /\ rq' = [rq EXCEPT ![p] = EmptyHeader]
    /\ sends' = [sends EXCEPT ![p] = 0]
    /\ resp' = [resp EXCEPT ![p] = NilResponse]
    /\ doErr' = [doErr EXCEPT ![p] = NilError]
    /\ body' = [body EXCEPT ![p] = NoBody]
    /\ ret' = [ret EXCEPT ![p] = NoRet]
    /\ out' = [out EXCEPT ![p] = NoOut]
    /\ UNCHANGED <<Token, HTTPHeader, vvars, bvars>>

\* one caller at a time
Callers == {"p1"}

Init == InitT /\ ValidatorIdle /\ BlockTypeIdle

Next ==
    \E p \in Callers :
        \/ Call(p)
        \/ HTTPDo(p)
        \/ RequestReturn(p)
        \/ OperationReturn(p)
        \/ Forget(p)

Spec == Init /\ [][Next]_vars

(***************************************************************************)
(* Concurrent specification: two goroutines call Login and GetCard on one   *)
(* Client; nothing in the Client orders their steps.                        *)
(***************************************************************************)
ConcurrentOps == {"Login", "GetCard"}

\* what Do returns to the concurrent callers: a connection error, or a 200
\* whose body is a JSON object, with or without a token
ConcurrentOutcomes ==
    {o \in DoOutcomeSet :
        \/ ~o.rp.present
        \/ /\ o.err = NilError
           /\ o.rp = HTTPResponse(200, EmptyHeader)
           /\ o.body.avail = Len(o.body.sent)
           /\ o.body.sent \in {<<"{", "}">>, <<"{", "t", "}">>}}

CallC(p) == CallWith(p, ConcurrentOps, {EmptyHeader}, {TRUE})

HTTPDoC(p) == HTTPDoWith(p, ConcurrentOutcomes)

NextC ==
    \E p \in Procs :
        \/ CallC(p)
        \/ HTTPDoC(p)
        \/ RequestReturn(p)
        \/ OperationReturn(p)
        \/ Forget(p)

SpecC == Init /\ [][NextC]_vars

(***************************************************************************)
(* Validator specification: the caller holds one payload of either type    *)
(* (the other is the zero value), validates it any number of times, and    *)
(* validates other payloads in between.                                    *)
(***************************************************************************)
NextPhase(ph) ==
    IF ph = "fresh" THEN "validated"
    ELSE IF ph = "interleaved" THEN "revalidated"
    ELSE ph

OtherPhase(ph) == IF ph = "validated" THEN "interleaved" ELSE ph

InitV ==
    /\ \/ kind = "create" /\ bab \in BoardsAndBlocksSet /\ pbab = ZeroPatchBoardsAndBlocks
       \/ kind = "patch" /\ bab = ZeroBoardsAndBlocks /\ pbab \in PatchBoardsAndBlocksSet
    /\ babErr = NotCalled
    /\ pbabErr = NotCalled
    /\ boardsMap = {}
    /\ phase = "fresh"
    /\ ClientIdle
    /\ BlockTypeIdle

\* err := bab.IsValid()
CallBabIsValid ==
    /\ kind = "create"
    /\ LET r == BoardsAndBlocks_IsValid(bab, boardsMap) IN
        /\ babErr' = r.err
        /\ boardsMap' = r.boardsMap
    /\ phase' = NextPhase(phase)
    /\ UNCHANGED <<kind, bab, pbab, pbabErr, tvars, bvars>>

\* err := pbab.IsValid()
CallPbabIsValid ==
    /\ kind = "patch"
    /\ pbabErr' = PatchBoardsAndBlocks_IsValid(pbab)
    /\ phase' = NextPhase(phase)
    /\ UNCHANGED <<kind, bab, pbab, babErr, boardsMap, tvars, bvars>>

\* another create batch is validated; its result is not recorded
CallOtherBabIsValid ==
    \E o \in OtherBoardsAndBlocksSet :
        /\ o # bab
        /\ boardsMap' = BoardsAndBlocks_IsValid(o, boardsMap).boardsMap
        /\ phase' = OtherPhase(phase)
        /\ UNCHANGED <<kind, bab, pbab, babErr, pbabErr, tvars, bvars>>

NextV == CallBabIsValid \/ CallPbabIsValid \/ CallOtherBabIsValid

SpecV == InitV /\ [][NextV]_vars

(***************************************************************************)
(* Block types (blocktype.go)                                              *)
(***************************************************************************)
TypeUnknown == "unknown"

\* the closed enumeration of block types
BlockTypes ==
    {"board", "card", "view", "text", "checkbox", "comment", "image",
     "attachment", "divider"}

\* the strings given to BlockTypeFromString
BlockTypeStrings ==
    BlockTypes \cup
    {"Board", "CARD", "Divider", "unknown", "Unknown", "nope", "Nope", "", " card",
     "cards", "boards", "page", "b"}

\* strings.ToLower(s)
ToLower(s) ==
    CASE s = "Board" -> "board"
      [] s = "CARD" -> "card"
      [] s = "Divider" -> "divider"
      [] s = "Unknown" -> "unknown"
      [] s = "Nope" -> "nope"
      [] OTHER -> s

\* An error value is the chain of the errors errors.Unwrap walks, outermost
\* first, each with its dynamic type; nil is the empty chain.
NilChain == <<>>
ErrInvalidBlockType(s) == [dyn |-> "ErrInvalidBlockType", Type |-> s]
ErrInvalidBlockTypePtr(s) == [dyn |-> "*ErrInvalidBlockType", Type |-> s]
WrapError == [dyn |-> "*fmt.wrapError", Type |-> ""]
ErrorString == [dyn |-> "*errors.errorString", Type |-> ""]

\* fmt.Errorf("...: %w", err)
Wrapped(err) == <<WrapError>> \o err

\* mutant: the error is returned as a pointer
BlockTypeFromString_Ptr(s) ==
    IF ToLower(s) \in BlockTypes
    THEN [bt |-> ToLower(s), err |-> NilChain]
    ELSE [bt |-> TypeUnknown, err |-> <<ErrInvalidBlockTypePtr(s)>>]

\* BlockTypeFromString(s): the switch on strings.ToLower(s); the error is the
\* value ErrInvalidBlockType{s}
BlockTypeFromString(s) ==
    IF ToLower(s) \in BlockTypes
    THEN [bt |-> ToLower(s), err |-> NilChain]
    ELSE [bt |-> TypeUnknown, err |-> <<ErrInvalidBlockType(s)>>]

\* errors.As(err, &target) for a target of type t: some error of the chain has
\* a dynamic type assignable to t (no error here has an As method)
ErrorsAs(err, t) == \E i \in 1..Len(err) : err[i].dyn = t

\* var eibt *ErrInvalidBlockType; return errors.As(err, &eibt)
IsErrInvalidBlockType(err) == ErrorsAs(err, "*ErrInvalidBlockType")

\* the errors a caller has at hand besides those of BlockTypeFromString
OtherErrors == {NilChain, <<ErrorString>>, <<ErrInvalidBlockTypePtr("nope")>>}

InitB == BlockTypeIdle /\ ClientIdle /\ ValidatorIdle

\* bt, err := BlockTypeFromString(s)
CallBlockTypeFromString ==
    /\ \E s \in BlockTypeStrings :
        LET r == BlockTypeFromString(s) IN
        /\ btIn' = s
        /\ btOut' = r.bt
        /\ btErr' = r.err
    /\ btIs' = "not called"
    /\ UNCHANGED <<vvars, tvars>>

\* the caller assigns err an error that does not come from BlockTypeFromString
TakeOtherError ==
    /\ \E e \in OtherErrors : btErr' = e
    /\ btIs' = "not called"
    /\ UNCHANGED <<btIn, btOut, vvars, tvars>>

\* err = fmt.Errorf("...: %w", err)
WrapErr ==
    /\ btErr # NilChain /\ Len(btErr) <= MaxWrap
    /\ btErr' = Wrapped(btErr)
    /\ btIs' = "not called"
    /\ UNCHANGED <<btIn, btOut, vvars, tvars>>

\* IsErrInvalidBlockType(err)
CallIsErrInvalidBlockType ==
    /\ btIs' = IF IsErrInvalidBlockType(btErr) THEN "true" ELSE "false"
    /\ UNCHANGED <<btIn, btOut, btErr, vvars, tvars>>

NextB ==
    \/ CallBlockTypeFromString
    \/ TakeOtherError
    \/ WrapErr
    \/ CallIsErrInvalidBlockType

SpecB == InitB /\ [][NextB]_vars

(***************************************************************************)
(* Properties of the validators                                            *)
(***************************************************************************)
BabCalled == kind = "create" /\ babErr # NotCalled
PbabCalled == kind = "patch" /\ pbabErr # NotCalled

\* block i of the batch references a board of the batch
Belongs(b, i) == \E j \in 1..Len(b.Boards) : b.Boards[j] = b.Blocks[i].BoardID
OrphanIndexes(b) == {i \in 1..Len(b.Blocks) : ~Belongs(b, i)}
FirstOrphanIndex(b) ==
    CHOOSE i \in OrphanIndexes(b) : \A k \in OrphanIndexes(b) : i <= k

\* C1: a create batch with at least one board, at least one block and every
\* block's BoardID among the batch's board IDs validates ok (nil).
C1_ValidBatchOk ==
    (BabCalled /\ Len(bab.Boards) > 0 /\ Len(bab.Blocks) > 0 /\ OrphanIndexes(bab) = {})
        => babErr = NilErr

\* reached: two boards, two blocks on the first of them
C1_Witness ==
    /\ BabCalled /\ babErr = NilErr
    /\ Len(bab.Boards) = 2 /\ bab.Boards[1] # bab.Boards[2]
    /\ Len(bab.Blocks) = 2
    /\ bab.Blocks[1].BoardID = bab.Boards[1] /\ bab.Blocks[2].BoardID = bab.Boards[1]

\* C2: with at least one board and one block, when some block references no
\* board of the batch the validator returns OrphanBlock carrying the ID of the
\* first such block in the order of the blocks sequence, and nothing else.
C2_FirstOrphanReported ==
    (BabCalled /\ Len(bab.Boards) > 0 /\ Len(bab.Blocks) > 0 /\ OrphanIndexes(bab) # {})
        => babErr = BlockDoesntBelongToAnyBoardErr(bab.Blocks[FirstOrphanIndex(bab)].ID)

\* reached: two orphans with different IDs, the first one is reported
C2_Witness ==
    /\ BabCalled /\ Len(bab.Boards) > 0
    /\ OrphanIndexes(bab) = {1, 2}
    /\ bab.Blocks[1].ID # bab.Blocks[2].ID
    /\ babErr = BlockDoesntBelongToAnyBoardErr(bab.Blocks[1].ID)

\* C3: with an empty boards list the validator returns NoBoards whatever the
\* blocks list holds (empty, or blocks that reference no board).
C3_NoBoardsFirst ==
    (BabCalled /\ Len(bab.Boards) = 0) => babErr = ErrNoBoardsInBoardsAndBlocks

\* reached: no boards and no blocks, the boards check wins
C3_Witness ==
    /\ BabCalled /\ Len(bab.Boards) = 0 /\ Len(bab.Blocks) = 0
    /\ babErr = ErrNoBoardsInBoardsAndBlocks

\* C4: with a non-empty boards list and an empty blocks list the validator
\* returns NoBlocks, which differs from NoBoards and from every OrphanBlock.
C4_NoBlocks ==
    (BabCalled /\ Len(bab.Boards) > 0 /\ Len(bab.Blocks) = 0)
        => /\ babErr = ErrNoBlocksInBoardsAndBlocks
           /\ babErr # ErrNoBoardsInBoardsAndBlocks
           /\ \A id \in BlockIDSet : babErr # BlockDoesntBelongToAnyBoardErr(id)

C4_Witness ==
    /\ BabCalled /\ Len(bab.Boards) = 1 /\ Len(bab.Blocks) = 0
    /\ babErr = ErrNoBlocksInBoardsAndBlocks

\* C5: a patch batch with an empty board ID list is rejected with NoBoards
\* whatever the lengths of the other three lists are.
C5_PatchNoBoards ==
    (PbabCalled /\ Len(pbab.BoardIDs) = 0) => pbabErr = ErrNoBoardsInBoardsAndBlocks

\* reached: no board ID, yet a board patch and unequal block lists
C5_Witness ==
    /\ PbabCalled /\ Len(pbab.BoardIDs) = 0 /\ Len(pbab.BoardPatches) > 0
    /\ Len(pbab.BlockIDs) # Len(pbab.BlockPatches)
    /\ pbabErr = ErrNoBoardsInBoardsAndBlocks

\* C6: with a non-empty board ID list: unequal board lists give
\* BoardListMismatch (whatever the block lists are); equal board lists and
\* unequal block lists give BlockListMismatch; ok exactly when both pairs have
\* equal length; the two mismatch errors are distinct values.
C6_PatchLengths ==
    (PbabCalled /\ Len(pbab.BoardIDs) > 0)
        => /\ Len(pbab.BoardIDs) # Len(pbab.BoardPatches)
                => pbabErr = ErrBoardIDsAndPatchesMissmatchInBoardsAndBlocks
           /\ (Len(pbab.BoardIDs) = Len(pbab.BoardPatches)
                  /\ Len(pbab.BlockIDs) # Len(pbab.BlockPatches))
                => pbabErr = ErrBlockIDsAndPatchesMissmatchInBoardsAndBlocks
           /\ pbabErr = NilErr
                <=> (Len(pbab.BoardIDs) = Len(pbab.BoardPatches)
                        /\ Len(pbab.BlockIDs) = Len(pbab.BlockPatches))
           /\ ErrBoardIDsAndPatchesMissmatchInBoardsAndBlocks
                # ErrBlockIDsAndPatchesMissmatchInBoardsAndBlocks

\* reached: matching board lists, one block ID more than block patches
C6_Witness ==
    /\ PbabCalled /\ Len(pbab.BoardIDs) = 2 /\ Len(pbab.BoardPatches) = 2
    /\ Len(pbab.BlockIDs) = 2 /\ Len(pbab.BlockPatches) = 1
    /\ pbabErr = ErrBlockIDsAndPatchesMissmatchInBoardsAndBlocks

\* C7: a board-only patch batch (board IDs with as many patches, no block ID and
\* no block patch) is valid, whereas a create batch without blocks is rejected.
C7_BoardOnlyPatchValid ==
    /\ (PbabCalled /\ Len(pbab.BoardIDs) > 0
           /\ Len(pbab.BoardIDs) = Len(pbab.BoardPatches)
           /\ Len(pbab.BlockIDs) = 0 /\ Len(pbab.BlockPatches) = 0)
          => pbabErr = NilErr
    /\ (BabCalled /\ Len(bab.Blocks) = 0) => babErr # NilErr

C7_Witness ==
    /\ PbabCalled /\ Len(pbab.BoardIDs) = 1 /\ Len(pbab.BoardPatches) = 1
    /\ Len(pbab.BlockIDs) = 0 /\ Len(pbab.BlockPatches) = 0
    /\ pbabErr = NilErr

\* C8: a validator call leaves the payloads as they were, and every later
\* validation of the unmodified payload returns what the earlier one returned,
\* whatever other payloads were validated in between.
C8_Pure ==
    [][/\ bab' = bab
       /\ pbab' = pbab
       /\ babErr # NotCalled => babErr' = babErr
       /\ pbabErr # NotCalled => pbabErr' = pbabErr]_vars

\* reached: validated, another batch with a board of its own validated, and
\* validated again with the same orphan reported
C8_Witness ==
    /\ phase = "revalidated" /\ kind = "create"
    /\ babErr.kind = "BlockDoesntBelongToAnyBoardErr"
    /\ Len(bab.Boards) > 0

(***************************************************************************)
(* Properties of the request call and the operations                       *)
(***************************************************************************)
\* caller p's request call has returned
Returned(p) == pc[p] \in {"returned", "done"}

\* Do handed caller p a response, without an error, whose status is a failure
FailureStatus(p) ==
    /\ resp[p].present /\ doErr[p] = NilError
    /\ resp[p].StatusCode >= StatusMultipleChoices
    /\ resp[p].StatusCode # StatusNotModified

\* the Response of caller p carries the response's status code and headers
CarriesStatusAndHeader(p) ==
    /\ out[p].Response.StatusCode = resp[p].StatusCode
    /\ out[p].Response.Header = resp[p].Header

\* C9 as stated: for every response with a status >= 300 other than 304 the
\* request call returns a RequestReaderError holding exactly the bytes the
\* server sent, and the Response carries the status code and the headers.
C9_Original ==
    \A p \in Procs :
        (Returned(p) /\ FailureStatus(p))
            => /\ ret[p].err = RequestReaderError(body[p].sent)
               /\ pc[p] = "done" => CarriesStatusAndHeader(p)

\* C9 amended: for every response with a status >= 300 other than 304 whose
\* body is read to its end, the request call returns a RequestReaderError
\* holding exactly the bytes the server sent; when reading the body fails it
\* returns the response with an error wrapping the read error instead.  In both
\* cases the Response built for the caller carries that error, the status code
\* and the headers of the response.
C9_RequestFailed ==
    \A p \in Procs :
        (Returned(p) /\ FailureStatus(p))
            => /\ body[p].avail = Len(body[p].sent)
                    => ret[p].err = RequestReaderError(body[p].sent)
               /\ body[p].avail < Len(body[p].sent)
                    => ret[p].err = ParsingResponseError(resp[p].StatusCode)
               /\ ret[p].rp = resp[p]
               /\ pc[p] = "done"
                    => /\ CarriesStatusAndHeader(p)
                       /\ out[p].Response.Error = ret[p].err

\* reached: status 500 with body "boom" and a header
C9_Witness ==
    \E p \in Procs :
        /\ pc[p] = "done"
        /\ resp[p] = HTTPResponse(500, {<<"Etag", "v1">>})
        /\ body[p].sent = <<"b", "o", "o", "m">>
        /\ out[p].Response.Error = RequestReaderError(<<"b", "o", "o", "m">>)
        /\ out[p].Response.StatusCode = 500

\* C10: when no response is obtained (the transport fails, or the request cannot
\* be built) the request call returns the cause as its error and no response;
\* the operation's Response has that non-nil Error, status code 0 and an empty
\* header map, and the operation returns its zero result (nil or false).
C10_NoResponse ==
    \A p \in Procs :
        (Returned(p) /\ ~resp[p].present)
            => /\ ret[p].rp = NilResponse
               /\ ret[p].err # NilError
               /\ doErr[p] # NilError => ret[p].err = doErr[p]
               /\ pc[p] = "done"
                    => /\ out[p].Response.Error = ret[p].err
                       /\ out[p].Response.StatusCode = 0
                       /\ out[p].Response.Header = {}
                       /\ out[p].result = (IF op[p] = "PatchBlock" THEN "false" ELSE "nil")

\* reached: the connection fails under an operation with a boolean result
C10_Witness ==
    \E p \in Procs :
        /\ pc[p] = "done" /\ op[p] = "PatchBlock"
        /\ doErr[p] = ConnError /\ ~resp[p].present
        /\ out[p].result = "false"
        /\ out[p].Response.Error = ConnError

\* C11: a response with status 304 is returned at once as a success: the
\* request call returns that response with a nil error, and when it returns no
\* byte of the body was read and the body is still open.
C11_NotModified ==
    \A p \in Procs :
        (Returned(p) /\ resp[p].present /\ doErr[p] = NilError
            /\ resp[p].StatusCode = StatusNotModified)
            => /\ ret[p] = [rp |-> resp[p], err |-> NilError]
               /\ pc[p] = "returned" => (body[p].pos = 0 /\ ~body[p].closed)

\* reached: the request call has returned a 304 with its header
C11_Witness ==
    \E p \in Procs :
        /\ pc[p] = "returned"
        /\ resp[p] = HTTPResponse(304, {<<"Etag", "v1">>})
        /\ ret[p].rp = resp[p] /\ ret[p].err = NilError
        /\ ~body[p].closed

\* the request of caller p was built and is on its way or answered
Built(p) == pc[p] \in {"sent", "received"}

\* the client sets header k itself: a default header, or Authorization when a
\* token is set
ClientSets(k) ==
    \/ k \in HeaderKeys(HTTPHeader)
    \/ k = "Authorization" /\ Token # ""

\* C12 as stated: caller-supplied headers are attached last, so every header a
\* caller supplied is on the wire with the caller's value.
C12_Original ==
    \A p \in Procs :
        Built(p) => \A x \in args[p].opts : x \in rq[p]

\* C12, amended: caller-supplied headers are attached first. The request carries
\* every default header of the client and, when a token is set, Authorization:
\* Bearer <token>, with the client's values; a caller-supplied header is sent
\* with the caller's value when the client does not set a header of that name;
\* every header name has one value.
C12_ClientWins ==
    \A p \in Procs :
        Built(p) =>
            /\ Token # "" => <<"Authorization", "Bearer " \o Token>> \in rq[p]
            /\ \A x \in HTTPHeader :
                   (x[1] # "Authorization" \/ Token = "") => x \in rq[p]
            /\ \A x \in args[p].opts : ~ClientSets(x[1]) => x \in rq[p]
            /\ \A x, y \in rq[p] : x[1] = y[1] => x = y
            /\ HeaderKeys(rq[p]) \subseteq
                   HeaderKeys(args[p].opts) \cup HeaderKeys(HTTPHeader) \cup {"Authorization"}

C12_Witness ==
    \E p \in Procs :
        /\ pc[p] = "sent"
        /\ Token = "tok"
        /\ args[p].opts = {<<"Authorization", "caller">>}
        /\ rq[p] = {<<"X-Requested-With", "XMLHttpRequest">>,
                    <<"Authorization", "Bearer tok">>}

\* C13: when an operation returns after Do handed it a response, on every path
\* (304, status >= 300, failed body read, failed decode, success), the body was
\* read to its end and is closed; and no body is ever read after it was closed.
C13_BodyReleased ==
    \A p \in Procs :
        /\ ~body[p].readClosed
        /\ (pc[p] = "done" /\ resp[p].present /\ doErr[p] = NilError)
               => body[p].closed /\ body[p].pos = body[p].avail

C13_Witness ==
    \E p \in Procs :
        /\ pc[p] = "done" /\ op[p] = "GetCard"
        /\ resp[p].present /\ resp[p].StatusCode = 200
        /\ out[p].Response.Error = DecodeError("SyntaxError")
        /\ body[p].closed /\ body[p].pos = body[p].avail /\ body[p].avail = 4

\* C14: one Client is safe for concurrent use: no operation writes the bearer
\* token or the default headers while another operation is in progress, and
\* no request is built from a token read while it was being written.
C14_ConcurrentUse ==
    [][/\ Token' # Token => \A q \in Procs : pc[q] = "idle" \/ pc'[q] # pc[q]
       /\ HTTPHeader' = HTTPHeader
       /\ \A q \in Procs : <<"Authorization", "Bearer torn">> \notin rq'[q]]_vars

\* the operations that decode the body of a successful response
TypedOps == {"GetCard", "Login"} \cup BoardsAndBlocksOps

\* the request call of caller p returned a 2xx response whose body, as far as
\* it arrives, is not a JSON document of the shape the operation expects
UnparsableSuccess(p) ==
    /\ resp[p].present /\ ret[p].err = NilError /\ ret[p].rp = resp[p]
    /\ resp[p].StatusCode >= 200 /\ resp[p].StatusCode < StatusMultipleChoices
    /\ Parse(SubSeq(body[p].sent, 1, body[p].avail)) # "object"

\* C15: a typed operation whose 2xx response body cannot be parsed reports a
\* decode error: its Response has an Error, which is neither a connection error
\* nor a RequestReaderError. This holds for every typed operation.
C15_DecodeErrorReported ==
    \A p \in Procs :
        (pc[p] = "done" /\ op[p] \in TypedOps /\ UnparsableSuccess(p))
            => /\ out[p].Response.Error # NilError
               /\ out[p].Response.Error.kind \notin
                      {"ConnError", "RedirectError", "RequestReaderError", "ParsingResponseError"}

\* what IsValid says of the batch caller p submitted (nil for the operations
\* that take no batch)
ValidationError(p) ==
    IF op[p] = "CreateBoardsAndBlocks" THEN BoardsAndBlocks_IsValid(args[p].bab, {}).err
    ELSE IF op[p] = "PatchBoardsAndBlocks" THEN PatchBoardsAndBlocks_IsValid(args[p].pbab)
    ELSE NilErr

\* C16: validation precedes transmission: for a batch that violates a batch
\* invariant, CreateBoardsAndBlocks and PatchBoardsAndBlocks issue no HTTP
\* request and return the validation error to the caller.
C16_ValidationFirst ==
    \A p \in Procs :
        ValidationError(p) # NilErr
            => /\ pc[p] # "sent" /\ sends[p] = 0
               /\ pc[p] = "done" => out[p].Response.Error.kind = ValidationError(p).kind

\* the terminal outcomes of the request call of caller p
ConnectionErrorOutcome(p) ==
    /\ sends[p] = 1 /\ doErr[p] # NilError
    /\ ret[p] = [rp |-> NilResponse, err |-> doErr[p]]

NotModifiedOutcome(p) ==
    /\ sends[p] = 1 /\ resp[p].present /\ doErr[p] = NilError
    /\ resp[p].StatusCode = StatusNotModified
    /\ ret[p] = [rp |-> resp[p], err |-> NilError]

ServerErrorOutcome(p) ==
    /\ sends[p] = 1 /\ FailureStatus(p)
    /\ ret[p].rp = resp[p]
    /\ ret[p].err.kind \in {"RequestReaderError", "ParsingResponseError"}
    /\ body[p].closed /\ body[p].pos = body[p].avail

SuccessOutcome(p) ==
    /\ sends[p] = 1 /\ resp[p].present /\ doErr[p] = NilError
    /\ resp[p].StatusCode < StatusMultipleChoices
    /\ ret[p] = [rp |-> resp[p], err |-> NilError]

\* http.NewRequest failed: the call returned before any request was issued
NotBuiltOutcome(p) ==
    /\ sends[p] = 0 /\ ~resp[p].present
    /\ ret[p] = [rp |-> NilResponse, err |-> NewRequestError]

\* how many of the four outcomes of the per-call state machine hold of caller p
OutcomeCount(p) ==
    (IF ConnectionErrorOutcome(p) THEN 1 ELSE 0)
    + (IF NotModifiedOutcome(p) THEN 1 ELSE 0)
    + (IF ServerErrorOutcome(p) THEN 1 ELSE 0)
    + (IF SuccessOutcome(p) THEN 1 ELSE 0)

Arrived(p) == SubSeq(body[p].sent, 1, body[p].avail)

\* caller p is a Login whose request call returned a response without an error
\* and whose body decodes to a LoginResponse with a non-empty token
LoginCarriesToken(p) ==
    /\ pc[p] = "returned" /\ op[p] = "Login"
    /\ ret[p].err = NilError /\ ret[p].rp.present
    /\ Parse(Arrived(p)) = "object" /\ TokenOf(Arrived(p)) # ""

\* C19: the stored token changes only at the return of a Login that obtained a
\* successful response which decodes and carries a non-empty token, and then
\* becomes exactly that token; every other step leaves it unchanged, and a
\* request built carries Authorization: Bearer <stored token>, or, when the
\* stored token is empty, no Authorization header of the client.
C19_TokenFrame ==
    [][\A p \in Procs :
          /\ (pc[p] = "returned" /\ pc'[p] = "done")
                 => IF LoginCarriesToken(p)
                    THEN Token' = TokenOf(Arrived(p))
                    ELSE Token' = Token
          /\ pc'[p] = pc[p] => (Token' = Token \/ \E q \in Procs : pc'[q] # pc[q])
          /\ ~(pc[p] = "returned" /\ pc'[p] = "done") /\ pc'[p] # pc[p] => Token' = Token
          /\ (pc[p] = "idle" /\ pc'[p] = "sent")
                 => /\ Token # "" => <<"Authorization", "Bearer " \o Token>> \in rq'[p]
                    /\ Token = "" =>
                           \A x \in rq'[p] : x[1] = "Authorization" => x \in args'[p].opts]_vars

C19_Witness ==
    \E p \in Procs :
        /\ pc[p] = "done" /\ op[p] = "Login"
        /\ resp[p].StatusCode = 200
        /\ out[p].Response.Error = NilError
        /\ Token = "t"

\* err is an ErrInvalidBlockType or wraps one
IsOrWrapsErrInvalidBlockType(err) ==
    \E i \in 1..Len(err) : err[i].dyn \in {"ErrInvalidBlockType", "*ErrInvalidBlockType"}

\* C18: IsErrInvalidBlockType returns true exactly for the errors that are an
\* ErrInvalidBlockType or wrap one: true for the error BlockTypeFromString
\* returns with the unknown sentinel, false for nil and for unrelated errors.
C18_IsErrInvalidBlockType ==
    btIs \in {"true", "false"}
        => (btIs = "true") = IsOrWrapsErrInvalidBlockType(btErr)

=============================================================================
